---- MODULE Spec2Model ----
(***************************************************************************)
(* A model of statuspage (src/statuspage/statuspage.py): the derivation of *)
(* system statuses, incidents and panels from a repository's labels and    *)
(* issues, the configuration lookup, and the commands that publish to the  *)
(* pages branch.                                                           *)
(*                                                                         *)
(* Representation.                                                         *)
(*   label      [name, color]                                              *)
(*   issue      [number, title, body, state, created_at, user, labels,     *)
(*               comments]; labels and comments are sequences              *)
(*   comment    [user, created_at, body]                                   *)
(*   OrderedDict of systems   sequence of [name, status], in key order     *)
(*   OrderedDict of panels    sequence of [status, systems], in key order  *)
(*   dict of status labels    sequence of [key, value], in key order       *)
(*   Python's None            the value None below                         *)
(***************************************************************************)
EXTENDS Integers, Sequences, FiniteSets, TLC

VARIABLES
    repoLabels,      \* repo.get_labels(): the repository's labels, in API order
    issues,          \* get_issues(repo): the issues, in fetch order
    collaborators,   \* get_collaborators(repo): logins
    branches,        \* the remote branches: branch name -> (path -> file bytes)
    localFiles,      \* the local working directory: path -> text
    repoCreated,     \* whether the repository exists
    DEFAULT_CONFIG,  \* the module-level dict of the process
    config,          \* the config the last operation used or returned
    systems,         \* the last result of get_systems
    incidents,       \* the last result of get_incidents
    panels,          \* the last result of get_panels
    content,         \* the page the last run_update rendered
    calls,           \* the remote calls of the last operation, in order
    outcome,         \* "running", or how the last operation ended: "ok", a return, or
                     \* the exception
    op,              \* the last operation and its arguments
    printed,         \* what the last add_system or remove_system itself printed, in order
    pc,              \* the remote call the running command makes next, "idle" for none
    local            \* the local variables of the running command

vars == <<repoLabels, issues, collaborators, branches, localFiles, repoCreated,
          DEFAULT_CONFIG, config, systems, incidents, panels, content, calls,
          outcome, op, printed, pc, local>>

----------------------------------------------------------------------------
(* Bounds of the explored inputs.                                          *)

MaxIssues == 2

MaxComments == 3

----------------------------------------------------------------------------
(* Values.                                                                 *)

None == "<None>"

SystemColor == "171717"

OtherColor == "FF4D4D"

Label(n, c) == [name |-> n, color |-> c]

EmptyMap == [x \in {} |-> x]

Range(s) == {s[i] : i \in 1..Len(s)}

Reverse(s) == [i \in 1..Len(s) |-> s[Len(s) + 1 - i]]

Min(S) == CHOOSE x \in S : \A y \in S : x <= y

(* The code points of the label names used, for Python's str ordering.     *)
CodePoints ==
    "API" :> <<65, 80, 73>> @@
    " API" :> <<32, 65, 80, 73>> @@
    "Web" :> <<87, 101, 98>> @@
    "db" :> <<100, 98>> @@
    "degraded performance" :> <<100, 101, 103, 114, 97, 100, 101, 100, 32, 112, 101, 114,
                                102, 111, 114, 109, 97, 110, 99, 101>> @@
    "down" :> <<100, 111, 119, 110>> @@
    " db " :> <<32, 100, 98, 32>> @@
    "bug" :> <<98, 117, 103>> @@
    "investigating" :> <<105, 110, 118, 101, 115, 116, 105, 103, 97, 116, 105, 110, 103>> @@
    "major outage" :> <<109, 97, 106, 111, 114, 32, 111, 117, 116, 97, 103, 101>>

(* Python's s < t on sequences of code points: lexicographic.              *)
LexLess(s, t) ==
    \E i \in 1..(Len(s) + 1) :
        /\ \A j \in 1..(i - 1) : j <= Len(t) /\ s[j] = t[j]
        /\ \/ i = Len(s) + 1 /\ Len(t) >= i
           \/ i <= Len(s) /\ i <= Len(t) /\ s[i] < t[i]

StrLess(a, b) == LexLess(CodePoints[a], CodePoints[b])

(* sorted() of a sequence of names: a stable insertion sort.               *)
InsertName(x, s) ==
    LET later == {i \in 1..Len(s) : StrLess(x, s[i])}
        at == IF later = {} THEN Len(s) + 1 ELSE Min(later)
    IN  SubSeq(s, 1, at - 1) \o <<x>> \o SubSeq(s, at, Len(s))

RECURSIVE sorted(_)
sorted(s) ==
    IF s = <<>> THEN <<>>
    ELSE InsertName(s[Len(s)], sorted(SubSeq(s, 1, Len(s) - 1)))

(* str.strip(): leading and trailing whitespace removed; the whitespace    *)
(* of the ASCII range.                                                     *)
Whitespace == {9, 10, 11, 12, 13, 28, 29, 30, 31, 32}

RECURSIVE lstrip(_)
lstrip(points) ==
    IF points # <<>> /\ Head(points) \in Whitespace THEN lstrip(Tail(points))
    ELSE points

strip(s) ==
    LET points == Reverse(lstrip(Reverse(lstrip(CodePoints[s]))))
    IN  CHOOSE n \in DOMAIN CodePoints : CodePoints[n] = points

(* markdown2.markdown: Markdown text to HTML text.                         *)
markdown(text) == [html |-> text]

----------------------------------------------------------------------------
(* iter_systems, get_severity, get_systems.                                *)

RECURSIVE iter_systems(_, _)
iter_systems(labels, system_color) ==
    IF labels = <<>> THEN <<>>
    ELSE IF Head(labels).color = system_color
         THEN <<Head(labels).name>> \o iter_systems(Tail(labels), system_color)
         ELSE iter_systems(Tail(labels), system_color)

(* The keys of a dict kept as a sequence of [key, value].                  *)
Keys(d) == {d[i].key : i \in 1..Len(d)}

RECURSIVE get_severity(_, _)
get_severity(labels, status_labels) ==
    IF labels = <<>> THEN None
    ELSE IF Head(labels).name \in Keys(status_labels)
         THEN Head(labels).name
         ELSE get_severity(Tail(labels), status_labels)

HasKey(od, name) == \E i \in 1..Len(od) : od[i].name = name

(* systems[name] = {"status": "operational"} on an OrderedDict.            *)
SeedSystem(od, name) ==
    IF HasKey(od, name)
    THEN [i \in 1..Len(od) |->
            IF od[i].name = name THEN [name |-> name, status |-> "operational"]
            ELSE od[i]]
    ELSE Append(od, [name |-> name, status |-> "operational"])

RECURSIVE SeedSystems(_, _)
SeedSystems(od, names) ==
    IF names = <<>> THEN od
    ELSE SeedSystems(SeedSystem(od, Head(names)), Tail(names))

(* MarkSystem changed so that the first open issue wins.                    *)
MarkSystemFirstWins(acc, name, severity) ==
    IF ~HasKey(acc.od, name) THEN [acc EXCEPT !.raised = TRUE]
    ELSE [acc EXCEPT !.od = [i \in 1..Len(acc.od) |->
            IF acc.od[i].name = name /\ acc.od[i].status = "operational"
            THEN [name |-> name, status |-> severity]
            ELSE acc.od[i]]]

(* systems[affected_system]["status"] = severity; a missing key raises     *)
(* KeyError, which ends get_systems.                                       *)
MarkSystem(acc, name, severity) ==
    IF ~HasKey(acc.od, name) THEN [acc EXCEPT !.raised = TRUE]
    ELSE [acc EXCEPT !.od = [i \in 1..Len(acc.od) |->
            IF acc.od[i].name = name THEN [name |-> name, status |-> severity]
            ELSE acc.od[i]]]

RECURSIVE MarkAffected(_, _, _)
MarkAffected(acc, affected_systems, severity) ==
    IF acc.raised \/ affected_systems = <<>> THEN acc
    ELSE MarkAffected(MarkSystem(acc, Head(affected_systems), severity),
                      Tail(affected_systems), severity)

RECURSIVE MarkIssues(_, _, _, _)
MarkIssues(acc, iss, system_color, status_labels) ==
    IF acc.raised \/ iss = <<>> THEN acc
    ELSE LET issue == Head(iss)
             next == IF issue.state = "open"
                     THEN MarkAffected(acc,
                                       iter_systems(issue.labels, system_color),
                                       get_severity(issue.labels, status_labels))
                     ELSE acc
         IN  MarkIssues(next, Tail(iss), system_color, status_labels)

(* get_systems: [raised, od]; raised means it ended in KeyError.           *)
get_systems(labels, iss, system_color, status_labels) ==
    MarkIssues([raised |-> FALSE,
                od |-> SeedSystems(<<>>, sorted(iter_systems(labels, system_color)))],
               iss, system_color, status_labels)

----------------------------------------------------------------------------
(* get_panels.                                                             *)

HasPanel(ps, status) == \E i \in 1..Len(ps) : ps[i].status = status

(* AddToPanel changed so that operational systems get a panel too, and a   *)
(* system is put in front of its panel.                                    *)
AddToPanelFront(ps, entry) ==
    IF HasPanel(ps, entry.status)
    THEN [i \in 1..Len(ps) |->
            IF ps[i].status = entry.status
            THEN [ps[i] EXCEPT !.systems = <<entry.name>> \o @]
            ELSE ps[i]]
    ELSE Append(ps, [status |-> entry.status, systems |-> <<entry.name>>])

AddToPanel(ps, entry) ==
    IF entry.status # "operational"
    THEN IF HasPanel(ps, entry.status)
         THEN [i \in 1..Len(ps) |->
                 IF ps[i].status = entry.status
                 THEN [ps[i] EXCEPT !.systems = Append(@, entry.name)]
                 ELSE ps[i]]
         ELSE Append(ps, [status |-> entry.status, systems |-> <<entry.name>>])
    ELSE ps

RECURSIVE FillPanels(_, _)
FillPanels(ps, od) ==
    IF od = <<>> THEN ps
    ELSE FillPanels(AddToPanel(ps, Head(od)), Tail(od))

get_panels(od) == FillPanels(<<>>, od)

----------------------------------------------------------------------------
(* get_incidents.                                                          *)

(* IsIncident changed so that the author is not checked.                   *)
IsIncidentAnyAuthor(issue, collabs, system_color, status_labels) ==
    LET affected_systems == sorted(iter_systems(issue.labels, system_color))
        severity == get_severity(issue.labels, status_labels)
    IN  ~(affected_systems = <<>> \/ (severity = None /\ issue.state # "closed"))

(* The two `continue` tests of the loop, negated.                          *)
IsIncident(issue, collabs, system_color, status_labels) ==
    LET affected_systems == sorted(iter_systems(issue.labels, system_color))
        severity == get_severity(issue.labels, status_labels)
    IN  /\ ~(affected_systems = <<>> \/ (severity = None /\ issue.state # "closed"))
        /\ issue.user \in collabs

(* Updates changed so that every comment becomes an update.                *)
UpdatesOfAll(comments, collabs) ==
    [i \in 1..Len(comments) |->
        [created |-> comments[i].created_at, body |-> markdown(comments[i].body)]]

RECURSIVE Updates(_, _)
Updates(comments, collabs) ==
    IF comments = <<>> THEN <<>>
    ELSE IF Head(comments).user \in collabs
         THEN <<[created |-> Head(comments).created_at,
                 body |-> markdown(Head(comments).body)]>>
              \o Updates(Tail(comments), collabs)
         ELSE Updates(Tail(comments), collabs)

Incident(issue, collabs, system_color, status_labels) ==
    [created |-> issue.created_at,
     title |-> issue.title,
     systems |-> sorted(iter_systems(issue.labels, system_color)),
     severity |-> get_severity(issue.labels, status_labels),
     closed |-> (issue.state = "closed"),
     body |-> markdown(issue.body),
     updates |-> Updates(issue.comments, collabs)]

RECURSIVE BuildIncidents(_, _, _, _)
BuildIncidents(iss, collabs, system_color, status_labels) ==
    IF iss = <<>> THEN <<>>
    ELSE IF IsIncident(Head(iss), collabs, system_color, status_labels)
         THEN <<Incident(Head(iss), collabs, system_color, status_labels)>>
              \o BuildIncidents(Tail(iss), collabs, system_color, status_labels)
         ELSE BuildIncidents(Tail(iss), collabs, system_color, status_labels)

(* list.sort on the key `created`: a stable ascending insertion sort.      *)
InsertByCreated(x, s) ==
    LET later == {i \in 1..Len(s) : x.created < s[i].created}
        at == IF later = {} THEN Len(s) + 1 ELSE Min(later)
    IN  SubSeq(s, 1, at - 1) \o <<x>> \o SubSeq(s, at, Len(s))

RECURSIVE SortByCreated(_)
SortByCreated(s) ==
    IF s = <<>> THEN <<>>
    ELSE InsertByCreated(s[Len(s)], SortByCreated(SubSeq(s, 1, Len(s) - 1)))

(* SortNewestFirst changed to the ascending sort, reversed.                *)
SortReversed(s) == Reverse(SortByCreated(s))

(* sorted(incidents, key=created, reverse=True): the list is reversed,     *)
(* sorted ascending and stably, and reversed again.                        *)
SortNewestFirst(s) == Reverse(SortByCreated(Reverse(s)))

get_incidents(iss, collabs, system_color, status_labels) ==
    SortNewestFirst(BuildIncidents(iss, collabs, system_color, status_labels))

----------------------------------------------------------------------------
(* DEFAULT_CONFIG as the module defines it.                                *)

DefaultConfig ==
    "footer" :> "Status page hosted by GitHub" @@
    "logo" :> "logo.png" @@
    "title" :> "Status" @@
    "favicon" :> "favicon.png" @@
    "system-color" :> SystemColor @@
    "status-labels" :> <<[key |-> "investigating", value |-> "1192FC"],
                         [key |-> "degraded performance", value |-> "FFA500"],
                         [key |-> "major outage", value |-> "FF4D4D"]>> @@
    "templates" :> <<"template.html", "style.css", "statuspage.js", "translations.ini">>

----------------------------------------------------------------------------
(* Texts, bytes and hashes.  A text is [k |-> "raw", n], a JSON document   *)
(* [k |-> "json", v] or a rendered page [k |-> "page", ...].               *)

Raw(n) == [k |-> "raw", n |-> n]

(* The text of a JSON document that lists the keys in the order of value.  *)
JsonText(value) == [k |-> "json", v |-> value]

(* sort_keys=True on a dict kept as a sequence of [key, value].            *)
SortItems(d) ==
    LET names == sorted([i \in 1..Len(d) |-> d[i].key])
    IN  [i \in 1..Len(d) |-> CHOOSE e \in Range(d) : e.key = names[i]]

sort_keys(value) ==
    IF "status-labels" \in DOMAIN value
    THEN [value EXCEPT !["status-labels"] = SortItems(@)]
    ELSE value

(* json.dumps(value, indent=4, sort_keys=True).                            *)
json_dumps(value) == JsonText(sort_keys(value))

(* json.loads raises ValueError on a text that is not JSON.                *)
IsJson(text) == text.k = "json"

json_loads(text) == text.v

utf8_encode(text) == [utf8 |-> text]

utf8_decode(bytes) == bytes.utf8

b64encode(bytes) == [b64 |-> bytes]

b64decode(data) == data.b64

IsStr(c) == "k" \in DOMAIN c

(* The blob sha GitHub gives a file: a function of its bytes.              *)
BlobSha(bytes) == [blob |-> bytes]

NoSha == [none |-> TRUE]

NoContent == [none |-> TRUE]

(* The ContentFile get_contents returns for a file of these bytes.         *)
ContentFile(bytes) ==
    [content |-> b64encode(bytes), decoded_content |-> bytes, sha |-> BlobSha(bytes)]

(* The inner sha1 of is_same_content, with hexdigest applied.              *)
sha1(c) == IF IsStr(c) THEN [sha1 |-> utf8_encode(c)] ELSE [sha1 |-> c]

is_same_content(c1, c2) == sha1(c1) = sha1(c2)

(* Template(text).render({systems, incidents, panels, config}).            *)
Render(template_text, sys, inc, pan, cfg) ==
    [k |-> "page", template |-> template_text, systems |-> sys,
     incidents |-> inc, panels |-> pan, config |-> cfg]

(* dict.update: the keys of r overwrite those of d.                        *)
Merge(d, r) ==
    [key \in DOMAIN d \cup DOMAIN r |-> IF key \in DOMAIN r THEN r[key] ELSE d[key]]

(* The template files shipped in ROOT/template.                            *)
PackageTemplates == <<"template.html", "style.css", "statuspage.js", "translations.ini">>

LocalTemplate(name) ==
    Raw(CHOOSE i \in 1..Len(PackageTemplates) : PackageTemplates[i] = name)

----------------------------------------------------------------------------
(* The remote repository as the commands call it.  A call is recorded as   *)
(* [fn, path, branch, sha, content].                                       *)

Call(fn, path, branch) ==
    [fn |-> fn, path |-> path, branch |-> branch, sha |-> NoSha, content |-> NoContent]

WriteCall(fn, path, branch, sha, text) ==
    [fn |-> fn, path |-> path, branch |-> branch, sha |-> sha, content |-> text]

HasFile(brs, branch, path) == branch \in DOMAIN brs /\ path \in DOMAIN brs[branch]

PutFile(brs, branch, path, text) ==
    [brs EXCEPT ![branch] = (path :> utf8_encode(text)) @@ @]

(* repo.update_file as GitHub answers it: 404 to a token that may not      *)
(* push and for a missing branch, 409 when the sha is not that of the file *)
(* on the branch; `reject` is the status (404 or 409) for a path the       *)
(* branch does not hold.  PyGithub raises UnknownObjectException for 404   *)
(* and GithubException otherwise; status is the exception's e.status, 0    *)
(* when nothing is raised.                                                 *)
update_file(brs, push, path, sha, text, branch, reject) ==
    IF ~push \/ branch \notin DOMAIN brs
    THEN [raised |-> "UnknownObjectException", status |-> 404, branches |-> brs]
    ELSE IF path \notin DOMAIN brs[branch]
         THEN [raised |-> IF reject = 404 THEN "UnknownObjectException"
                          ELSE "GithubException",
               status |-> reject, branches |-> brs]
         ELSE IF BlobSha(brs[branch][path]) # sha
              THEN [raised |-> "GithubException", status |-> 409, branches |-> brs]
              ELSE [raised |-> "no", status |-> 0,
                    branches |-> PutFile(brs, branch, path, text)]

(* repo.create_file: 404 as above, 422 when the branch holds the path.     *)
create_file(brs, push, path, text, branch) ==
    IF ~push \/ branch \notin DOMAIN brs
    THEN [raised |-> "UnknownObjectException", status |-> 404, branches |-> brs]
    ELSE IF path \in DOMAIN brs[branch]
         THEN [raised |-> "GithubException", status |-> 422, branches |-> brs]
         ELSE [raised |-> "no", status |-> 0,
               branches |-> PutFile(brs, branch, path, text)]

(* get_files lists the branch it names itself.                             *)
FilesBranch == "gh-pages"

(* The target of run_update's writes.                                      *)
IndexBranch == "gh-pages"

(* A call on the repository's labels, recorded with the label's name.      *)
NoBranch == "<no branch>"

LabelCall(fn, name) == Call(fn, name, NoBranch)

(* The messages of click.secho, with the value format() fills in.          *)
Added(system) == [text |-> "Successfully added new system {}", system |-> system]

AlreadyExists(system) ==
    [text |-> "Unable to add new system {}, it already exists.", system |-> system]

Deleted(system) == [text |-> "Successfully deleted {}", system |-> system]

DoesNotExist(system) ==
    [text |-> "Unable to remove system {}, it does not exist.", system |-> system]

HasLabel(labels, name) == \E i \in 1..Len(labels) : labels[i].name = name

(* repo.create_label on [raised, labels]: 422 for a name that exists.      *)
create_label(acc, name, color) ==
    IF HasLabel(acc.labels, name)
    THEN [acc EXCEPT !.raised = "GithubException"]
    ELSE [acc EXCEPT !.labels = Append(@, Label(name, color))]

(* What label.delete() leaves on GitHub: the label is gone from the        *)
(* repository and from every issue that carried it.                        *)
delete_label(labels, name) == SelectSeq(labels, LAMBDA l : l.name # name)

unlabel_issues(iss, name) ==
    [i \in 1..Len(iss) |->
        [iss[i] EXCEPT !.labels = SelectSeq(@, LAMBDA l : l.name # name)]]

(* issue.get_labels() and issue.get_comments(): what the issue of that     *)
(* number carries when the call is made.                                   *)
IssueNow(iss, issue) == iss[CHOOSE i \in 1..Len(iss) : iss[i].number = issue.number]

get_labels(iss, issue) == IssueNow(iss, issue).labels

get_comments(iss, issue) == IssueNow(iss, issue).comments

----------------------------------------------------------------------------
(* A command in progress.  A command is a chain of remote calls, and the   *)
(* repository's users act between them.  The machine m holds the state as  *)
(* a record:                                                               *)
(*   repo, labels, collaborators, branches, issues   the repository        *)
(*   DEFAULT_CONFIG                                  the module's dict     *)
(*   config, systems, incidents, panels, content     the command's values  *)
(*   calls, printed, op                              what it did so far    *)
(*   pc       the remote call the command makes next, "idle" for none      *)
(*   raised   how the command ended: "no", "unchanged" (run_update         *)
(*            returned False) or the exception that left it                *)
(*   local    the other local variables of the command                     *)
(* A step makes the call pc names and the computation that follows it up   *)
(* to the next call of the repository as it is then.  A read at the head   *)
(* sha reads the commit get_git_ref named (local.head) whatever was        *)
(* written since, so it is taken with the step that precedes it.  No step  *)
(* of the specifications changes collaborators or comments; their reads    *)
(* are taken with the read of the issue's labels.                          *)

Start == [name |-> "start"]

(* local: head, the files of the commit at the head sha; files, the        *)
(* listing of get_files; fetched, the issues as get_issues returned them;  *)
(* cursor, the position of a loop over fetched; acc, get_systems'          *)
(* `systems` in the making; found, get_incidents' `incidents` in the       *)
(* making; templates, what is left of run_upgrade's loop; caller, the      *)
(* command whose try block run_update is called in.                        *)
NoLocal ==
    [head |-> EmptyMap, files |-> {}, fetched |-> <<>>, cursor |-> 0,
     acc |-> [raised |-> FALSE, od |-> <<>>], found |-> <<>>, templates |-> <<>>,
     caller |-> "none"]

Blank ==
    [raised |-> "no", calls |-> <<>>, repo |-> FALSE, labels |-> <<>>,
     collaborators |-> {}, branches |-> EmptyMap, issues |-> <<>>,
     DEFAULT_CONFIG |-> DefaultConfig, config |-> EmptyMap, systems |-> <<>>,
     incidents |-> <<>>, panels |-> <<>>, content |-> NoContent, printed |-> <<>>,
     op |-> Start, pc |-> "idle", local |-> NoLocal]

(* The command ends: it returns, or the exception r leaves it.             *)
Done(m, r) == [m EXCEPT !.raised = r, !.pc = "idle", !.local = NoLocal]

GithubExceptions == {"GithubException", "UnknownObjectException"}

(* run_update returns, returns False ("unchanged") or raises r with        *)
(* e.status st.  Called by run_add_system or run_remove_system it is       *)
(* inside their try block, whose except clause takes a GithubException of  *)
(* status 422, or an UnknownObjectException, for the label's; the value    *)
(* it returns is used by no caller.                                        *)
Return(m, r, st) ==
    IF m.local.caller = "add_system" /\ r \in GithubExceptions /\ st = 422
    THEN Done([m EXCEPT !.printed = Append(@, AlreadyExists(m.op.system))], "no")
    ELSE IF m.local.caller = "remove_system" /\ r = "UnknownObjectException"
    THEN Done([m EXCEPT !.printed = Append(@, DoesNotExist(m.op.system))], "no")
    ELSE IF m.local.caller # "none" /\ r = "unchanged" THEN Done(m, "no")
    ELSE Done(m, r)

(* run_update, the calls of lines 212-218: get_git_ref of the pages branch *)
(* and template.html at that sha.                                          *)
update_ref(m) ==
    LET bp == m.op.branch_pages
        ref == Call("get_git_ref", "heads", bp)
        tpl == Call("get_contents", "template.html", bp)
    IN  IF bp \notin DOMAIN m.branches
        THEN Return([m EXCEPT !.calls = Append(@, ref)], "UnknownObjectException", 404)
        ELSE IF "template.html" \notin DOMAIN m.branches[bp]
        THEN Return([m EXCEPT !.calls = @ \o <<ref, tpl>>], "UnknownObjectException", 404)
        ELSE [m EXCEPT !.calls = @ \o <<ref, tpl>>, !.local.head = m.branches[bp],
                       !.pc = "listing"]

(* Where get_config returns to: run_add_system's own call is followed by   *)
(* create_label, run_update's by get_systems.                              *)
AfterConfig(m) ==
    IF m.op.name = "add_system" /\ m.local.caller = "none" THEN "create_label"
    ELSE "labels"

(* get_config, line 363: get_files.  `config` is the dict DEFAULT_CONFIG   *)
(* itself.                                                                 *)
get_config_files(m) ==
    LET called == [m EXCEPT !.calls = Append(@, Call("get_contents", "/", FilesBranch))]
    IN  IF FilesBranch \notin DOMAIN m.branches
        THEN Return(called, "UnknownObjectException", 404)
        ELSE IF "config.json" \in DOMAIN m.branches[FilesBranch]
        THEN [called EXCEPT !.local.files = DOMAIN m.branches[FilesBranch],
                            !.pc = "config"]
        ELSE [called EXCEPT !.local.files = DOMAIN m.branches[FilesBranch],
                            !.config = m.DEFAULT_CONFIG, !.pc = AfterConfig(m)]

(* get_config, lines 367-373: the read of config.json on the pages branch  *)
(* and the update() of DEFAULT_CONFIG with it.                             *)
get_config_read(m) ==
    LET bp == m.op.branch_pages
        called == [m EXCEPT !.calls = Append(@, Call("get_contents", "config.json", bp))]
    IN  IF ~HasFile(m.branches, bp, "config.json")
        THEN Return(called, "UnknownObjectException", 404)
        ELSE LET text == utf8_decode(
                            ContentFile(m.branches[bp]["config.json"]).decoded_content)
                 merged == IF IsJson(text) THEN Merge(m.DEFAULT_CONFIG, json_loads(text))
                           ELSE m.DEFAULT_CONFIG
             IN  [called EXCEPT !.DEFAULT_CONFIG = merged, !.config = merged,
                                !.pc = AfterConfig(m)]

(* get_systems, lines 409-412: repo.get_labels() and the seeding.          *)
get_systems_labels(m) ==
    [m EXCEPT !.local.acc =
                 [raised |-> FALSE,
                  od |-> SeedSystems(<<>>, sorted(iter_systems(m.labels,
                                                               m.config["system-color"])))],
              !.pc = "issues"]

(* The position of the next open issue from `from` on, 0 when none.        *)
NextOpen(iss, from) ==
    LET open == {i \in from..Len(iss) : iss[i].state = "open"}
    IN  IF open = {} THEN 0 ELSE Min(open)

(* Template(...).render and the read of index.html at the head sha, lines  *)
(* 225-243: the rendered page is compared with the index.html read.        *)
publish(m) ==
    LET bp == m.op.branch_pages
        pan == get_panels(m.systems)
        template_file == ContentFile(m.local.head["template.html"])
        page == Render(utf8_decode(template_file.decoded_content),
                       m.systems, m.incidents, pan, m.config)
        ready == [m EXCEPT !.panels = pan, !.content = page,
                           !.calls = Append(@, Call("get_contents", "index.html", bp))]
    IN  IF "index.html" \notin DOMAIN m.local.head
        THEN [ready EXCEPT !.pc = "create_file"]
        ELSE IF is_same_content(page,
                                b64decode(ContentFile(m.local.head["index.html"]).content))
        THEN Return(ready, "unchanged", 0)
        ELSE [ready EXCEPT !.pc = "update_file"]

(* The loop of get_incidents goes on with the issue at the cursor, or      *)
(* get_incidents returns the incidents sorted.                             *)
get_incidents_continue(m) ==
    IF m.local.cursor > Len(m.local.fetched)
    THEN publish([m EXCEPT !.incidents = SortNewestFirst(m.local.found)])
    ELSE [m EXCEPT !.pc = "incident_labels"]

(* The loop of get_systems goes on with the next open issue, or            *)
(* get_systems returns and get_incidents starts.                           *)
get_systems_continue(m) ==
    LET i == NextOpen(m.local.fetched, m.local.cursor)
    IN  IF i = 0
        THEN get_incidents_continue([m EXCEPT !.systems = m.local.acc.od,
                                              !.local.cursor = 1])
        ELSE [m EXCEPT !.local.cursor = i, !.pc = "issue_labels"]

(* get_systems, line 414: the issues are fetched when the loop starts.     *)
get_systems_issues(m) ==
    get_systems_continue([m EXCEPT !.local.fetched = m.issues, !.local.cursor = 1])

(* get_systems, lines 416-421, for the open issue at the cursor.           *)
get_systems_issue(m) ==
    LET issue == m.local.fetched[m.local.cursor]
        labels == get_labels(m.issues, issue)
        severity == get_severity(labels, m.config["status-labels"])
        affected_systems == iter_systems(labels, m.config["system-color"])
        acc == MarkAffected(m.local.acc, affected_systems, severity)
    IN  IF acc.raised THEN Return(m, "KeyError", 0)
        ELSE get_systems_continue([m EXCEPT !.local.acc = acc, !.local.cursor = @ + 1])

(* get_incidents, lines 430-461, for the issue at the cursor.              *)
get_incidents_issue(m) ==
    LET fetched == m.local.fetched[m.local.cursor]
        issue == [fetched EXCEPT !.labels = get_labels(m.issues, fetched),
                                 !.comments = get_comments(m.issues, fetched)]
        system_color == m.config["system-color"]
        status_labels == m.config["status-labels"]
    IN  get_incidents_continue(
            [m EXCEPT !.local.found =
                         IF IsIncident(issue, m.collaborators, system_color, status_labels)
                         THEN Append(@, Incident(issue, m.collaborators, system_color,
                                                 status_labels))
                         ELSE @,
                      !.local.cursor = @ + 1])

(* run_update, lines 245-251: update_file, inside the try block.           *)
update_index(m, reject) ==
    LET index == ContentFile(m.local.head["index.html"])
        updated == update_file(m.branches, m.op.push, "index.html", index.sha, m.content,
                               IndexBranch, reject)
        called == [m EXCEPT !.calls = Append(@, WriteCall("update_file", "index.html",
                                                          IndexBranch, index.sha,
                                                          m.content)),
                            !.branches = updated.branches]
    IN  IF updated.raised = "UnknownObjectException"
        THEN [called EXCEPT !.pc = "create_file"]
        ELSE Return(called, updated.raised, updated.status)

(* run_update, lines 254-259: create_file, in the except clause.           *)
create_index(m) ==
    LET created == create_file(m.branches, m.op.push, "index.html", m.content,
                               IndexBranch)
        called == [m EXCEPT !.calls = Append(@, WriteCall("create_file", "index.html",
                                                          IndexBranch, NoSha, m.content)),
                            !.branches = created.branches]
    IN  Return(called, created.raised, created.status)

(* run_upgrade, line 174: get_files.                                       *)
upgrade_files(m) ==
    LET called == [m EXCEPT !.calls = Append(@, Call("get_contents", "/", FilesBranch))]
    IN  IF FilesBranch \notin DOMAIN m.branches
        THEN Done(called, "UnknownObjectException")
        ELSE [called EXCEPT !.local.files = DOMAIN m.branches[FilesBranch],
                            !.pc = "upgrade_ref"]

(* run_upgrade's loop, lines 178-187, up to the next write: open() of a    *)
(* file the package does not ship raises FileNotFoundError; a template of  *)
(* the listing is read at the head sha and skipped when it has the         *)
(* package's content.                                                      *)
RECURSIVE upgrade_continue(_)
upgrade_continue(m) ==
    IF m.local.templates = <<>> THEN Done(m, "no")
    ELSE LET template == Head(m.local.templates)
             read == [m EXCEPT !.calls = Append(@, Call("get_contents", template,
                                                        m.op.branch_pages))]
         IN  IF template \notin Range(PackageTemplates)
             THEN Done(m, "FileNotFoundError")
             ELSE IF template \notin m.local.files
             THEN [m EXCEPT !.pc = "upgrade_create"]
             ELSE IF template \notin DOMAIN m.local.head
             THEN Done(read, "UnknownObjectException")
             ELSE IF is_same_content(
                        LocalTemplate(template),
                        b64decode(ContentFile(m.local.head[template]).content))
             THEN upgrade_continue([read EXCEPT !.local.templates = Tail(@)])
             ELSE [read EXCEPT !.pc = "upgrade_update"]

(* run_upgrade, line 175: get_git_ref of the pages branch; the loop is     *)
(* over the list DEFAULT_CONFIG['templates'].                              *)
upgrade_ref(m) ==
    LET bp == m.op.branch_pages
        called == [m EXCEPT !.calls = Append(@, Call("get_git_ref", "heads", bp))]
    IN  IF bp \notin DOMAIN m.branches
        THEN Done(called, "UnknownObjectException")
        ELSE upgrade_continue([called EXCEPT !.local.head = m.branches[bp],
                                             !.local.templates =
                                                 m.DEFAULT_CONFIG["templates"]])

(* run_upgrade, lines 189-195: update_file with the sha read at the head.  *)
upgrade_update(m, reject) ==
    LET template == Head(m.local.templates)
        text == LocalTemplate(template)
        repo_template == ContentFile(m.local.head[template])
        updated == update_file(m.branches, m.op.push, template, repo_template.sha, text,
                               m.op.branch_pages, reject)
        called == [m EXCEPT !.calls = Append(@, WriteCall("update_file", template,
                                                          m.op.branch_pages,
                                                          repo_template.sha, text)),
                            !.branches = updated.branches]
    IN  IF updated.raised # "no" THEN Done(called, updated.raised)
        ELSE upgrade_continue([called EXCEPT !.local.templates = Tail(@)])

(* run_upgrade, lines 197-203: create_file for a template the listing      *)
(* lacks.                                                                  *)
upgrade_create(m) ==
    LET template == Head(m.local.templates)
        text == LocalTemplate(template)
        created == create_file(m.branches, m.op.push, template, text, m.op.branch_pages)
        called == [m EXCEPT !.calls = Append(@, WriteCall("create_file", template,
                                                          m.op.branch_pages, NoSha, text)),
                            !.branches = created.branches]
    IN  IF created.raised # "no" THEN Done(called, created.raised)
        ELSE upgrade_continue([called EXCEPT !.local.templates = Tail(@)])

(* run_add_system, lines 142-152: create_label, inside the try block.      *)
(* GitHub answers a token that may not push with 404, which the except     *)
(* clause raises again; 422 is reported.  With --prompt the command then   *)
(* waits for the answer to "Run update to re-generate the page?".          *)
add_system_create_label(m) ==
    LET name == strip(m.op.system)
        called == [m EXCEPT !.calls = Append(@, LabelCall("create_label", name))]
        made == create_label([raised |-> "no", labels |-> m.labels], name,
                             m.config["system-color"])
        added == [called EXCEPT !.labels = made.labels, !.printed = <<Added(m.op.system)>>]
    IN  IF ~m.op.push THEN Done(called, "UnknownObjectException")
        ELSE IF made.raised # "no"
        THEN Done([called EXCEPT !.printed = <<AlreadyExists(m.op.system)>>], "no")
        ELSE IF m.op.prompt THEN [added EXCEPT !.pc = "confirm"]
        ELSE Done(added, "no")

(* run_remove_system, line 161: get_label, inside the try block.           *)
remove_system_get_label(m) ==
    LET name == strip(m.op.system)
        called == [m EXCEPT !.calls = Append(@, LabelCall("get_label", name))]
    IN  IF ~HasLabel(m.labels, name)
        THEN Done([called EXCEPT !.printed = <<DoesNotExist(m.op.system)>>], "no")
        ELSE [called EXCEPT !.pc = "delete"]

(* run_remove_system, lines 162-164: label.delete(); GitHub answers 404    *)
(* for a label that is gone and to a token that may not push.              *)
remove_system_delete(m) ==
    LET name == strip(m.op.system)
        called == [m EXCEPT !.calls = Append(@, LabelCall("delete", name))]
        deleted == [called EXCEPT !.labels = delete_label(@, name),
                                  !.issues = unlabel_issues(@, name),
                                  !.printed = <<Deleted(m.op.system)>>]
    IN  IF ~m.op.push \/ ~HasLabel(m.labels, name)
        THEN Done([called EXCEPT !.printed = <<DoesNotExist(m.op.system)>>], "no")
        ELSE IF m.op.prompt THEN [deleted EXCEPT !.pc = "confirm"]
        ELSE Done(deleted, "no")

(* click.confirm returns the user's answer; with yes run_update is called  *)
(* inside the try block of the command.                                    *)
confirm(m, answer) ==
    IF answer THEN update_ref([m EXCEPT !.local.caller = m.op.name])
    ELSE Done(m, "no")

(* The step of the command at m.pc; answer is the user's answer to a       *)
(* confirm, reject GitHub's status for an update of a path the branch      *)
(* lacks.                                                                  *)
Step(m, answer, reject) ==
    CASE m.pc = "ref" -> update_ref(m)
      [] m.pc = "listing" -> get_config_files(m)
      [] m.pc = "config" -> get_config_read(m)
      [] m.pc = "labels" -> get_systems_labels(m)
      [] m.pc = "issues" -> get_systems_issues(m)
      [] m.pc = "issue_labels" -> get_systems_issue(m)
      [] m.pc = "incident_labels" -> get_incidents_issue(m)
      [] m.pc = "update_file" -> update_index(m, reject)
      [] m.pc = "create_file" -> create_index(m)
      [] m.pc = "upgrade_files" -> upgrade_files(m)
      [] m.pc = "upgrade_ref" -> upgrade_ref(m)
      [] m.pc = "upgrade_update" -> upgrade_update(m, reject)
      [] m.pc = "upgrade_create" -> upgrade_create(m)
      [] m.pc = "create_label" -> add_system_create_label(m)
      [] m.pc = "get_label" -> remove_system_get_label(m)
      [] m.pc = "delete" -> remove_system_delete(m)
      [] m.pc = "confirm" -> confirm(m, answer)

(* The command run to its end with nobody else acting on the repository.   *)
RECURSIVE RunToEnd(_)
RunToEnd(m) == IF m.pc = "idle" THEN m ELSE RunToEnd(Step(m, TRUE, 409))

(* run_update called from m on, alone on the repository.                   *)
run_update(m) == RunToEnd([m EXCEPT !.pc = "ref"])

----------------------------------------------------------------------------
(* read_local_config and run_create.                                       *)

NoPath == "<no --config>"

(* read_local_config: [raised, config].  The file opened is "config.json"  *)
(* of the working directory; the bare `raise` of the else branch has no    *)
(* active exception and gives RuntimeError.                                *)
read_local_config(files, path) ==
    IF path \in DOMAIN files
    THEN IF "config.json" \notin DOMAIN files
         THEN [raised |-> "FileNotFoundError", config |-> EmptyMap]
         ELSE IF ~IsJson(files["config.json"])
         THEN [raised |-> "ValueError", config |-> EmptyMap]
         ELSE [raised |-> "no", config |-> json_loads(files["config.json"])]
    ELSE [raised |-> "RuntimeError", config |-> EmptyMap]

(* The loop over config['status-labels'].items(): the dict's own order.    *)
RECURSIVE create_status_labels(_, _)
create_status_labels(acc, items) ==
    IF acc.raised # "no" \/ items = <<>> THEN acc
    ELSE create_status_labels(create_label(acc, Head(items).key, Head(items).value),
                              Tail(items))

(* The loop over systems.split(","): each name is stripped.                *)
RECURSIVE create_system_labels(_, _, _)
create_system_labels(acc, names, color) ==
    IF acc.raised # "no" \/ names = <<>> THEN acc
    ELSE create_system_labels(create_label(acc, strip(Head(names)), color),
                              Tail(names), color)

(* The loop that commits the template files: [raised, calls, branches].    *)
RECURSIVE create_templates(_, _, _)
create_templates(acc, templates, branch_pages) ==
    IF acc.raised # "no" \/ templates = <<>> THEN acc
    ELSE IF Head(templates) \notin Range(PackageTemplates)
    THEN [acc EXCEPT !.raised = "FileNotFoundError"]
    ELSE LET text == LocalTemplate(Head(templates))
             created == create_file(acc.branches, TRUE, Head(templates), text, branch_pages)
         IN  create_templates(
                [raised |-> created.raised,
                 calls |-> Append(acc.calls,
                                  WriteCall("create_file", Head(templates), branch_pages,
                                            NoSha, text)),
                 branches |-> created.branches],
                Tail(templates), branch_pages)

(* The branch a new repository gets with its first commit.                 *)
DefaultBranch == "main"

(* The user of the token, who owns the repositories it creates.            *)
Owner == "alice"

(* run_create: `old`, a machine with no results yet, with the fields the   *)
(* reached steps set; repo tells                                           *)
(* whether the repository exists (create_repo answers 422 for a name that  *)
(* is taken), config is the config run_create itself used.  The repository *)
(* is new and its owner the only user, so the command runs alone on it.    *)
run_create(old, files, dc, config_path, system_names, branch_main, branch_pages) ==
    LET loaded == IF config_path # NoPath THEN read_local_config(files, config_path)
                  ELSE [raised |-> "no", config |-> dc]
        cfg == loaded.config
        begun == [old EXCEPT !.op = [name |-> "create", config_path |-> config_path,
                                     branch_pages |-> branch_pages, push |-> TRUE]]
        entered == [begun EXCEPT !.config = cfg, !.calls = <<Call("create_repo", "", "")>>]
        made == [entered EXCEPT !.repo = TRUE, !.collaborators = {Owner},
                                !.labels = <<>>, !.branches = EmptyMap, !.issues = <<>>]
        stop(base, r) == [base EXCEPT !.raised = r]
    IN  IF loaded.raised # "no" THEN stop(begun, loaded.raised)
        ELSE IF old.repo THEN stop(entered, "GithubException")
        ELSE IF "status-labels" \notin DOMAIN cfg THEN stop(made, "KeyError")
        ELSE LET statuses == create_status_labels([raised |-> "no", labels |-> <<>>],
                                                  cfg["status-labels"])
                 labelled == IF "system-color" \in DOMAIN cfg
                             THEN create_system_labels(statuses, system_names,
                                                       cfg["system-color"])
                             ELSE [statuses EXCEPT !.raised = "KeyError"]
                 withLabels == [made EXCEPT !.labels = labelled.labels]
                 readme == WriteCall("create_file", "README.md", DefaultBranch, NoSha, Raw(0))
                 main == (DefaultBranch :> ("README.md" :> utf8_encode(Raw(0))))
                 withMain == [withLabels EXCEPT !.branches = main,
                                                !.calls = Append(@, readme)]
                 ref == Call("get_git_ref", "heads", branch_main)
                 mkref == Call("create_git_ref", "heads", branch_pages)
                 branched == (branch_pages :> main[DefaultBranch]) @@ main
                 withPages == [withMain EXCEPT !.branches = branched,
                                               !.calls = @ \o <<ref, mkref>>]
             IN  IF labelled.raised # "no" THEN stop(withLabels, labelled.raised)
                 ELSE IF branch_main # DefaultBranch
                 THEN stop([withMain EXCEPT !.calls = Append(@, ref)],
                           "UnknownObjectException")
                 ELSE IF branch_pages = DefaultBranch
                 THEN stop([withMain EXCEPT !.calls = @ \o <<ref, mkref>>],
                           "GithubException")
                 ELSE IF "templates" \notin DOMAIN cfg THEN stop(withPages, "KeyError")
                 ELSE LET tpls == create_templates(
                                     [raised |-> "no", calls |-> withPages.calls,
                                      branches |-> branched],
                                     cfg["templates"], branch_pages)
                          text == json_dumps(cfg)
                          saved == create_file(tpls.branches, TRUE, "config.json", text,
                                               branch_pages)
                          withFiles == [withPages EXCEPT
                                          !.branches = saved.branches,
                                          !.calls = Append(tpls.calls,
                                                WriteCall("create_file", "config.json",
                                                          branch_pages, NoSha, text))]
                          ran == run_update([withFiles EXCEPT !.local.caller = "create"])
                      IN  IF tpls.raised # "no"
                          THEN stop([withPages EXCEPT !.branches = tpls.branches,
                                                      !.calls = tpls.calls], tpls.raised)
                          ELSE IF saved.raised # "no" THEN stop(withFiles, saved.raised)
                          ELSE [ran EXCEPT !.config = cfg]

----------------------------------------------------------------------------
(* The inputs explored.                                                    *)

Users == {"alice", "mallory"}

Times == {1, 2}

(* Repositories of three labels: two systems and a severity, a system and  *)
(* two severities, a severity label that has the system color, no severity.*)
RepoLabelChoices ==
    { <<Label("Web", SystemColor), Label("API", SystemColor), Label("major outage", OtherColor)>>,
      <<Label("investigating", OtherColor), Label("Web", SystemColor), Label("major outage", OtherColor)>>,
      <<Label("db", SystemColor), Label("major outage", SystemColor), Label("bug", OtherColor)>>,
      <<Label("db", SystemColor), Label("Web", SystemColor), Label("API", SystemColor)>> }

(* Every sequence of distinct elements of the sequence s, in every order.  *)
Arrangements(s) ==
    UNION { { q \in [1..n -> Range(s)] : \A i, j \in 1..n : i # j => q[i] # q[j] }
            : n \in 0..Len(s) }

SeqsUpTo(S, n) == UNION { [1..k -> S] : k \in 0..n }

Issue(n, state, labels, user, created, comments) ==
    [number |-> n, title |-> n, body |-> n, state |-> state,
     created_at |-> created, user |-> user, labels |-> labels,
     comments |-> comments]

Comment(n, user) == [user |-> user, created_at |-> n, body |-> n]

(* The variables an operation of the derivation does not read.             *)
InitRest ==
    /\ branches = EmptyMap
    /\ localFiles = EmptyMap
    /\ repoCreated = TRUE
    /\ DEFAULT_CONFIG = DefaultConfig
    /\ config = DefaultConfig
    /\ content = <<>>
    /\ calls = <<>>
    /\ outcome = "ok"
    /\ op = Start
    /\ printed = <<>>
    /\ pc = "idle"
    /\ local = NoLocal

InitSystems ==
    /\ repoLabels \in RepoLabelChoices
    /\ \E n \in 0..MaxIssues :
         \E st \in [1..n -> {"open", "closed"}], ls \in [1..n -> Arrangements(repoLabels)] :
            issues = [i \in 1..n |-> Issue(i, st[i], ls[i], "alice", 1, <<>>)]
    /\ collaborators = {"alice"}
    /\ systems = <<>>
    /\ incidents = <<>>
    /\ panels = <<>>
    /\ InitRest

(* The label sets of an issue explored for the incidents.                  *)
IncidentLabelChoices ==
    { <<>>,
      <<Label("Web", SystemColor)>>,
      <<Label("major outage", OtherColor)>>,
      <<Label("major outage", OtherColor), Label("Web", SystemColor)>>,
      <<Label("Web", SystemColor), Label("API", SystemColor)>>,
      <<Label("Web", SystemColor), Label("investigating", OtherColor), Label("API", SystemColor)>> }

IncidentRepoLabels ==
    <<Label("Web", SystemColor), Label("API", SystemColor),
      Label("major outage", OtherColor), Label("investigating", OtherColor)>>

InitIncidents ==
    /\ repoLabels = IncidentRepoLabels
    /\ collaborators \in {{"alice"}, {"alice", "mallory"}}
    /\ \E n \in 0..MaxIssues :
         \E st \in [1..n -> {"open", "closed"}], ls \in [1..n -> IncidentLabelChoices],
            us \in [1..n -> Users], ts \in [1..n -> Times] :
            issues = [i \in 1..n |-> Issue(i, st[i], ls[i], us[i], ts[i], <<>>)]
    /\ systems = <<>>
    /\ incidents = <<>>
    /\ panels = <<>>
    /\ InitRest

InitComments ==
    /\ repoLabels = IncidentRepoLabels
    /\ collaborators = {"alice"}
    /\ \E n \in 0..MaxIssues :
         \E us \in [1..n -> Users], cs \in [1..n -> SeqsUpTo(Users, MaxComments)] :
            issues = [i \in 1..n |->
                        Issue(i, "open",
                              <<Label("Web", SystemColor), Label("major outage", OtherColor)>>,
                              us[i], 1,
                              [c \in 1..Len(cs[i]) |-> Comment(10 * i + c, cs[i][c])])]
    /\ systems = <<>>
    /\ incidents = <<>>
    /\ panels = <<>>
    /\ InitRest

PanelNames == <<"A", "B", "C", "D">>

PanelStatuses == {"operational", "major outage", "degraded performance", None}

InitPanels ==
    /\ repoLabels = <<>>
    /\ issues = <<>>
    /\ collaborators = {}
    /\ \E n \in 0..Len(PanelNames) :
         \E st \in [1..n -> PanelStatuses] :
            systems = [i \in 1..n |-> [name |-> PanelNames[i], status |-> st[i]]]
    /\ incidents = <<>>
    /\ panels = <<>>
    /\ InitRest

----------------------------------------------------------------------------
(* The derivation functions of run_update, each applied to a repository    *)
(* that nobody changes during the call: get_systems and get_incidents are  *)
(* the loops of the steps above run over issues that keep their labels.    *)

DoGetSystems ==
    LET r == get_systems(repoLabels, issues, config["system-color"], config["status-labels"])
    IN  /\ systems' = r.od
        /\ outcome' = IF r.raised THEN "KeyError" ELSE "ok"
        /\ op' = [name |-> "get_systems"]
        /\ UNCHANGED <<repoLabels, issues, collaborators, branches, localFiles, repoCreated,
                       DEFAULT_CONFIG, config, incidents, panels, content, calls,
                       printed, pc, local>>

DoGetIncidents ==
    /\ incidents' = get_incidents(issues, collaborators,
                                  config["system-color"], config["status-labels"])
    /\ outcome' = "ok"
    /\ op' = [name |-> "get_incidents"]
    /\ UNCHANGED <<repoLabels, issues, collaborators, branches, localFiles, repoCreated,
                   DEFAULT_CONFIG, config, systems, panels, content, calls, printed,
                   pc, local>>

DoGetPanels ==
    /\ panels' = get_panels(systems)
    /\ outcome' = "ok"
    /\ op' = [name |-> "get_panels"]
    /\ UNCHANGED <<repoLabels, issues, collaborators, branches, localFiles, repoCreated,
                   DEFAULT_CONFIG, config, systems, incidents, content, calls, printed,
                   pc, local>>

NextSystems == DoGetSystems

SpecSystems == InitSystems /\ [][NextSystems]_vars

NextIncidents == DoGetIncidents

SpecIncidents == InitIncidents /\ [][NextIncidents]_vars

NextComments == DoGetIncidents

SpecComments == InitComments /\ [][NextComments]_vars

NextPanels == DoGetPanels

SpecPanels == InitPanels /\ [][NextPanels]_vars

----------------------------------------------------------------------------
(* The commands.  A command starts from Current: the repository and the    *)
(* module's DEFAULT_CONFIG as they are, and no results yet.  Its first     *)
(* call is made when it starts; each later call is a step of its own, and  *)
(* the users of the repository act between the steps.                      *)

Current ==
    [Blank EXCEPT !.repo = repoCreated, !.labels = repoLabels,
                  !.collaborators = collaborators, !.branches = branches,
                  !.issues = issues, !.DEFAULT_CONFIG = DEFAULT_CONFIG]

(* The command in progress.                                                *)
Machine ==
    [Current EXCEPT !.config = config, !.systems = systems, !.incidents = incidents,
                    !.panels = panels, !.content = content, !.calls = calls,
                    !.printed = printed, !.op = op, !.pc = pc, !.local = local]

Apply(r) ==
    /\ repoCreated' = r.repo
    /\ repoLabels' = r.labels
    /\ collaborators' = r.collaborators
    /\ branches' = r.branches
    /\ issues' = r.issues
    /\ DEFAULT_CONFIG' = r.DEFAULT_CONFIG
    /\ config' = r.config
    /\ systems' = r.systems
    /\ incidents' = r.incidents
    /\ panels' = r.panels
    /\ content' = r.content
    /\ calls' = r.calls
    /\ outcome' = IF r.pc # "idle" THEN "running"
                  ELSE IF r.raised = "no" THEN "ok" ELSE r.raised
    /\ op' = r.op
    /\ printed' = r.printed
    /\ pc' = r.pc
    /\ local' = r.local

(* The command o starts at the call first.                                 *)
Enter(o, first) == Step([Current EXCEPT !.op = o, !.pc = first], TRUE, 409)

PagesBranches == {"gh-pages", "pages"}

(* The statuses GitHub may answer an update of a path the branch lacks.    *)
RejectStatuses == {404, 409}

(* The status is GitHub's choice where update_file is called.              *)
Rejects == IF pc \in {"update_file", "upgrade_update"} THEN RejectStatuses ELSE {409}

(* statuspage update --branch-pages bp, with a token that may push or not. *)
RunUpdate(bp, push) ==
    /\ pc = "idle"
    /\ repoCreated
    /\ Apply(Enter([name |-> "update", branch_pages |-> bp, push |-> push], "ref"))
    /\ UNCHANGED localFiles

(* The calls of run_update, of the update command or of the command that   *)
(* called it.                                                              *)
UpdateCalls ==
    {"listing", "config", "labels", "issues", "issue_labels", "incident_labels",
     "update_file", "create_file"}

UpdateStep ==
    /\ pc \in UpdateCalls
    /\ op.name = "update" \/ local.caller # "none"
    /\ \E reject \in Rejects : Apply(Step(Machine, TRUE, reject))
    /\ UNCHANGED localFiles

(* statuspage upgrade --branch-pages bp.                                   *)
RunUpgrade(bp, push) ==
    /\ pc = "idle"
    /\ repoCreated
    /\ Apply(Enter([name |-> "upgrade", branch_pages |-> bp, push |-> push],
                   "upgrade_files"))
    /\ UNCHANGED localFiles

UpgradeStep ==
    /\ pc \in {"upgrade_ref", "upgrade_update", "upgrade_create"}
    /\ \E reject \in Rejects : Apply(Step(Machine, TRUE, reject))
    /\ UNCHANGED localFiles

(* statuspage create --config path --systems names --branch-pages bp.      *)
RunCreate(path, names, bp) ==
    /\ pc = "idle"
    /\ Apply(run_create(Current, localFiles, DEFAULT_CONFIG, path, names,
                        DefaultBranch, bp))
    /\ UNCHANGED localFiles

(* statuspage config_init: init_default_config.                            *)
ConfigInit ==
    /\ pc = "idle"
    /\ localFiles' = ("config.json" :> json_dumps(DEFAULT_CONFIG)) @@ localFiles
    /\ Apply([Current EXCEPT !.op = [name |-> "config_init"]])

(* A new process: the module is loaded again.                              *)
NewProcess ==
    /\ pc = "idle"
    /\ Apply([Current EXCEPT !.DEFAULT_CONFIG = DefaultConfig,
                             !.op = [name |-> "process"]])
    /\ UNCHANGED localFiles

(* The --system values tried: a system create made, and a new one typed    *)
(* with blanks around it.                                                  *)
SystemInputs == {"API", " db "}

(* statuspage add_system --system s --prompt/--no-prompt --branch-pages    *)
(* bp.                                                                     *)
RunAddSystem(system, prompt, bp, push) ==
    /\ pc = "idle"
    /\ repoCreated
    /\ Apply(Enter([name |-> "add_system", system |-> system, prompt |-> prompt,
                    branch_pages |-> bp, push |-> push], "listing"))
    /\ UNCHANGED localFiles

(* The calls run_add_system makes itself: get_config's read of config.json *)
(* and create_label.                                                       *)
AddSystemStep ==
    /\ pc \in {"config", "create_label"}
    /\ op.name = "add_system" /\ local.caller = "none"
    /\ Apply(Step(Machine, TRUE, 409))
    /\ UNCHANGED localFiles

(* statuspage remove_system --system s --prompt/--no-prompt                *)
(* --branch-pages bp.                                                      *)
RunRemoveSystem(system, prompt, bp, push) ==
    /\ pc = "idle"
    /\ repoCreated
    /\ Apply(Enter([name |-> "remove_system", system |-> system, prompt |-> prompt,
                    branch_pages |-> bp, push |-> push], "get_label"))
    /\ UNCHANGED localFiles

RemoveSystemStep ==
    /\ pc = "delete"
    /\ Apply(Step(Machine, TRUE, 409))
    /\ UNCHANGED localFiles

(* The user answers "Run update to re-generate the page?".                 *)
Confirm(answer) ==
    /\ pc = "confirm"
    /\ Apply(Step(Machine, answer, 409))
    /\ UNCHANGED localFiles

(* What the users of the repository do, between the commands and between   *)
(* the calls of a command.  They change the repository only.               *)

CommandVars ==
    <<localFiles, repoCreated, DEFAULT_CONFIG, config, systems, incidents, panels,
      content, calls, outcome, op, printed, pc, local>>

RemoteConfigTexts == {Raw(99), json_dumps("title" :> "Outages")}

UserEditsConfig(b, text) ==
    /\ b \in DOMAIN branches \cap PagesBranches
    /\ branches' = PutFile(branches, b, "config.json", text)
    /\ UNCHANGED <<repoLabels, issues, collaborators>>
    /\ UNCHANGED CommandVars

UserDeletesFile(b, path) ==
    /\ HasFile(branches, b, path)
    /\ branches' = [branches EXCEPT ![b] = [f \in DOMAIN @ \ {path} |-> @[f]]]
    /\ UNCHANGED <<repoLabels, issues, collaborators>>
    /\ UNCHANGED CommandVars

UserEditsTemplates(b) ==
    /\ HasFile(branches, b, "style.css")
    /\ HasFile(branches, b, "statuspage.js")
    /\ branches' = [branches EXCEPT ![b] =
                      [f \in DOMAIN @ \ {"statuspage.js"} |->
                          IF f = "style.css" THEN utf8_encode(Raw(10)) ELSE @[f]]]
    /\ UNCHANGED <<repoLabels, issues, collaborators>>
    /\ UNCHANGED CommandVars

UserBranches(b, from) ==
    /\ b \in PagesBranches \ DOMAIN branches
    /\ from \in DOMAIN branches \cap PagesBranches
    /\ branches' = (b :> branches[from]) @@ branches
    /\ UNCHANGED <<repoLabels, issues, collaborators>>
    /\ UNCHANGED CommandVars

IssueOpened ==
    /\ issues = <<>>
    /\ \E sys \in Range(repoLabels), sev \in Range(repoLabels) :
          /\ sys.name = "API"
          /\ sev.name = "major outage"
          /\ issues' = <<Issue(1, "open", <<sys, sev>>, Owner, 1, <<>>)>>
    /\ UNCHANGED <<repoLabels, branches, collaborators>>
    /\ UNCHANGED CommandVars

(* A user, or another run of remove_system, deletes a label.               *)
UserDeletesLabel(name) ==
    /\ HasLabel(repoLabels, name)
    /\ repoLabels' = delete_label(repoLabels, name)
    /\ issues' = unlabel_issues(issues, name)
    /\ UNCHANGED <<branches, collaborators>>
    /\ UNCHANGED CommandVars

(* The repository `statuspage create --systems Web,API` leaves.            *)
Created == run_create(Blank, EmptyMap, DefaultConfig, NoPath, <<"Web", "API">>,
                      DefaultBranch, "gh-pages")

Init ==
    /\ repoCreated = Created.repo
    /\ repoLabels = Created.labels
    /\ collaborators = Created.collaborators
    /\ branches = Created.branches
    /\ issues = <<>>
    /\ localFiles = EmptyMap
    /\ DEFAULT_CONFIG = DefaultConfig
    /\ config = EmptyMap
    /\ systems = <<>>
    /\ incidents = <<>>
    /\ panels = <<>>
    /\ content = NoContent
    /\ calls = <<>>
    /\ outcome = "ok"
    /\ op = Start
    /\ printed = <<>>
    /\ pc = "idle"
    /\ local = NoLocal

(* The commands on either pages branch, on a repository without issues,    *)
(* while its users branch, and replace config.json by text that is not    *)
(* JSON, delete it and edit the templates.                                 *)
Next ==
    \/ \E bp \in PagesBranches, push \in BOOLEAN : RunUpdate(bp, push)
    \/ UpdateStep
    \/ \E bp \in PagesBranches, push \in BOOLEAN : RunUpgrade(bp, push)
    \/ UpgradeStep
    \/ NewProcess
    \/ \E b \in PagesBranches : UserEditsConfig(b, Raw(99))
    \/ \E b \in PagesBranches : UserDeletesFile(b, "config.json")
    \/ UserEditsTemplates(FilesBranch)
    \/ \E b, from \in PagesBranches : UserBranches(b, from)

Spec == Init /\ [][Next]_vars

(* A remote config.json that names a template twice and a template the     *)
(* package does not ship.                                                  *)
OtherTemplates == json_dumps("templates" :> <<"style.css", "style.css", "nope.txt">>)

(* The commands used with the default --branch-pages only.                 *)
NextDefault ==
    \/ \E push \in BOOLEAN : RunUpdate(FilesBranch, push)
    \/ UpdateStep
    \/ \E push \in BOOLEAN : RunUpgrade(FilesBranch, push)
    \/ UpgradeStep
    \/ NewProcess
    \/ \E text \in RemoteConfigTexts \cup {OtherTemplates} :
          UserEditsConfig(FilesBranch, text)
    \/ UserDeletesFile(FilesBranch, "config.json")
    \/ UserEditsTemplates(FilesBranch)
    \/ IssueOpened

SpecDefault == Init /\ [][NextDefault]_vars

(* The local files a create starts from.                                   *)
CustomConfig == [DefaultConfig EXCEPT !["title"] = "Outages"]

LocalFileChoices ==
    { cwd @@ mine :
        cwd \in {EmptyMap, "config.json" :> json_dumps(DefaultConfig),
                 "config.json" :> JsonText(DefaultConfig), "config.json" :> Raw(99)},
        mine \in {EmptyMap, "my.json" :> json_dumps(CustomConfig),
                  "my.json" :> json_dumps("title" :> "Outages")} }

InitCreate ==
    /\ repoCreated = FALSE
    /\ repoLabels = <<>>
    /\ collaborators = {}
    /\ branches = EmptyMap
    /\ issues = <<>>
    /\ localFiles \in LocalFileChoices
    /\ DEFAULT_CONFIG = DefaultConfig
    /\ config = EmptyMap
    /\ systems = <<>>
    /\ incidents = <<>>
    /\ panels = <<>>
    /\ content = NoContent
    /\ calls = <<>>
    /\ outcome = "ok"
    /\ op = Start
    /\ printed = <<>>
    /\ pc = "idle"
    /\ local = NoLocal

(* The --systems values tried, split at the commas.                        *)
SystemNames == {<<"Web", " API">>, <<"API", " API">>}

NextCreate ==
    \/ \E path \in {NoPath, "config.json", "my.json"}, names \in SystemNames,
          bp \in PagesBranches \cup {DefaultBranch} :
          RunCreate(path, names, bp)
    \/ ConfigInit

SpecCreate == InitCreate /\ [][NextCreate]_vars

(* The commands that add and remove systems, on the repository create      *)
(* leaves, while its users open issues, delete labels and work on the      *)
(* pages branches.                                                         *)
NextLabels ==
    \/ \E system \in SystemInputs, prompt, push \in BOOLEAN, bp \in PagesBranches :
          RunAddSystem(system, prompt, bp, push)
    \/ AddSystemStep
    \/ \E system \in SystemInputs, prompt, push \in BOOLEAN, bp \in PagesBranches :
          RunRemoveSystem(system, prompt, bp, push)
    \/ RemoveSystemStep
    \/ \E answer \in BOOLEAN : Confirm(answer)
    \/ UpdateStep
    \/ \E b, from \in PagesBranches : UserBranches(b, from)
    \/ UserDeletesFile("pages", "index.html")
    \/ IssueOpened
    \/ UserDeletesLabel("db")

SpecLabels == Init /\ [][NextLabels]_vars

----------------------------------------------------------------------------
(* Properties of the derivation.  They are stated on the inputs and the    *)
(* results alone, with the helpers below.                                  *)

IsSystemLabel(l) == l.color = config["system-color"]

IsSeverityLabel(l) == l.name \in Keys(config["status-labels"])

CarriesSystem(issue, name) ==
    \E l \in Range(issue.labels) : l.name = name /\ IsSystemLabel(l)

CarriesSeverity(issue) == \E l \in Range(issue.labels) : IsSeverityLabel(l)

(* The name of the first severity label of the issue, None without one.    *)
FirstSeverity(issue) ==
    LET hits == {k \in 1..Len(issue.labels) : IsSeverityLabel(issue.labels[k])}
    IN  IF hits = {} THEN None ELSE issue.labels[Min(hits)].name

Max(S) == CHOOSE x \in S : \A y \in S : x >= y

(* The open issues, by index, that carry the system.                       *)
OpenCarriers(name) ==
    {j \in 1..Len(issues) : issues[j].state = "open" /\ CarriesSystem(issues[j], name)}

(* C1: get_systems has exactly one entry per system label and no other,    *)
(* and an entry is "operational" iff no open issue with that system label  *)
(* carries a severity label.                                               *)
C1_OperationalIffNoSeverity ==
    (op.name = "get_systems" /\ outcome = "ok") =>
        /\ \A l \in Range(repoLabels) :
              IsSystemLabel(l) =>
                  Cardinality({i \in 1..Len(systems) : systems[i].name = l.name}) = 1
        /\ \A i \in 1..Len(systems) :
              \E l \in Range(repoLabels) : IsSystemLabel(l) /\ l.name = systems[i].name
        /\ \A i \in 1..Len(systems) :
              (systems[i].status = "operational") <=>
                  ~\E j \in OpenCarriers(systems[i].name) : CarriesSeverity(issues[j])

(* C8: a system carried by an open issue has the severity of the last such *)
(* issue in fetch order, None when that issue has no severity label; a     *)
(* system carried by no open issue stays "operational".                    *)
C8_LastOpenIssueWins ==
    (op.name = "get_systems" /\ outcome = "ok") =>
        \A i \in 1..Len(systems) :
            LET carriers == OpenCarriers(systems[i].name)
            IN  IF carriers = {}
                THEN systems[i].status = "operational"
                ELSE systems[i].status = FirstSeverity(issues[Max(carriers)])

(* C8 happens: two open issues carry one system, the first with a severity *)
(* and the second with another or none, and the status is that of the      *)
(* second.                                                                 *)
C8_Witness ==
    /\ op.name = "get_systems"
    /\ outcome = "ok"
    /\ \E i \in 1..Len(systems) :
          LET carriers == OpenCarriers(systems[i].name)
          IN  /\ Cardinality(carriers) >= 2
              /\ CarriesSeverity(issues[Min(carriers)])
              /\ FirstSeverity(issues[Min(carriers)]) # FirstSeverity(issues[Max(carriers)])
              /\ systems[i].status = FirstSeverity(issues[Max(carriers)])

(* The issue qualifies as an incident.                                     *)
Qualifies(issue) ==
    /\ \E l \in Range(issue.labels) : IsSystemLabel(l)
    /\ issue.state = "closed" \/ CarriesSeverity(issue)
    /\ issue.user \in collaborators

IncidentsOf(issue) == {k \in 1..Len(incidents) : incidents[k].title = issue.title}

(* C3: an issue produces an incident iff it carries a system label, is     *)
(* closed or carries a severity label, and its author is a collaborator; a *)
(* qualifying closed issue without severity label gives an incident with   *)
(* severity None and closed = TRUE.                                        *)
C3_IncidentIff ==
    op.name = "get_incidents" =>
        \A i \in 1..Len(issues) :
            /\ (IncidentsOf(issues[i]) # {}) <=> Qualifies(issues[i])
            /\ \A k \in IncidentsOf(issues[i]) :
                  /\ incidents[k].closed = (issues[i].state = "closed")
                  /\ incidents[k].severity = FirstSeverity(issues[i])

(* C3 happens: a collaborator's closed issue with a system label and no    *)
(* severity label is an incident, next to an excluded issue.               *)
C3_Witness ==
    /\ op.name = "get_incidents"
    /\ \E i \in 1..Len(issues) :
          /\ issues[i].state = "closed"
          /\ ~CarriesSeverity(issues[i])
          /\ \E k \in IncidentsOf(issues[i]) :
                incidents[k].severity = None /\ incidents[k].closed
    /\ \E i \in 1..Len(issues) :
          /\ \E l \in Range(issues[i].labels) : IsSystemLabel(l)
          /\ issues[i].user \notin collaborators
          /\ IncidentsOf(issues[i]) = {}

(* The comments of the issue, by index, that a collaborator wrote.         *)
TrustedComments(issue) ==
    {c \in 1..Len(issue.comments) : issue.comments[c].user \in collaborators}

(* The n-th element of a set of numbers, in ascending order.               *)
Nth(S, n) == CHOOSE c \in S : Cardinality({d \in S : d < c}) = n - 1

(* C4: the updates of an incident are the issue's comments written by      *)
(* collaborators, one update each, in comment order.                       *)
C4_UpdatesAreCollaboratorComments ==
    op.name = "get_incidents" =>
        \A i \in 1..Len(issues) : \A k \in IncidentsOf(issues[i]) :
            LET trusted == TrustedComments(issues[i])
                ups == incidents[k].updates
            IN  /\ Len(ups) = Cardinality(trusted)
                /\ \A u \in 1..Len(ups) :
                      LET c == issues[i].comments[Nth(trusted, u)]
                      IN  ups[u] = [created |-> c.created_at, body |-> [html |-> c.body]]

(* C4 happens: an incident with two updates whose issue also has a comment *)
(* of a non-collaborator before the last of them.                          *)
C4_Witness ==
    /\ op.name = "get_incidents"
    /\ \E i \in 1..Len(issues) : \E k \in IncidentsOf(issues[i]) :
          /\ Len(incidents[k].updates) = 2
          /\ Len(issues[i].comments) = 3
          /\ issues[i].comments[3].user \in collaborators

(* The entries of the status mapping, by index, with this status.          *)
WithStatus(status) == {i \in 1..Len(systems) : systems[i].status = status}

(* C5: a system is in the panels iff it is not "operational", then once    *)
(* and under its own status; a panel lists its systems in the order of the *)
(* status mapping; the panels are in the order of the first system seen    *)
(* with their status.                                                      *)
C5_PanelsGroupByStatus ==
    op.name = "get_panels" =>
        /\ \A i \in 1..Len(systems) :
              LET places == {pq \in {<<p, q>> : p \in 1..Len(panels), q \in 1..Len(systems)} :
                                /\ pq[2] <= Len(panels[pq[1]].systems)
                                /\ panels[pq[1]].systems[pq[2]] = systems[i].name}
              IN  IF systems[i].status = "operational"
                  THEN places = {}
                  ELSE /\ Cardinality(places) = 1
                       /\ \A pq \in places : panels[pq[1]].status = systems[i].status
        /\ \A p \in 1..Len(panels) :
              /\ Len(panels[p].systems) = Cardinality(WithStatus(panels[p].status))
              /\ \A q \in 1..Len(panels[p].systems) :
                    panels[p].systems[q] = systems[Nth(WithStatus(panels[p].status), q)].name
        /\ \A p, r \in 1..Len(panels) :
              p < r => Min(WithStatus(panels[p].status)) < Min(WithStatus(panels[r].status))

(* C5 happens: A and C in major outage, B operational, D degraded.         *)
C5_Witness ==
    /\ op.name = "get_panels"
    /\ systems = <<[name |-> "A", status |-> "major outage"],
                   [name |-> "B", status |-> "operational"],
                   [name |-> "C", status |-> "major outage"],
                   [name |-> "D", status |-> "degraded performance"]>>
    /\ panels = <<[status |-> "major outage", systems |-> <<"A", "C">>],
                  [status |-> "degraded performance", systems |-> <<"D">>]>>

(* The issue, by index, an incident was built from.                        *)
IssueOf(k) == CHOOSE i \in 1..Len(issues) : issues[i].title = incidents[k].title

(* C9: the incidents are ordered newest first, incidents created at the    *)
(* same time keep the fetch order of their issues, and every qualifying    *)
(* issue has exactly one incident.                                         *)
C9_NewestFirstStable ==
    op.name = "get_incidents" =>
        /\ \A a, b \in 1..Len(incidents) :
              a < b =>
                  /\ incidents[a].created >= incidents[b].created
                  /\ incidents[a].created = incidents[b].created => IssueOf(a) < IssueOf(b)
        /\ \A k \in 1..Len(incidents) :
              \E i \in 1..Len(issues) : issues[i].title = incidents[k].title
        /\ \A i \in 1..Len(issues) :
              Cardinality(IncidentsOf(issues[i])) = IF Qualifies(issues[i]) THEN 1 ELSE 0

(* C9 happens: two incidents created at the same time, in the fetch order  *)
(* of their issues.                                                        *)
C9_Witness ==
    /\ op.name = "get_incidents"
    /\ Len(incidents) = 2
    /\ incidents[1].created = incidents[2].created
    /\ IssueOf(1) < IssueOf(2)

----------------------------------------------------------------------------
(* Properties of the commands.                                             *)

IsWrite(c) == c.fn \in {"update_file", "create_file"}

(* C2: the publish step of an update makes no write call when the rendered *)
(* page equals the index.html it read, exactly one create call and no      *)
(* update call when it found no index.html, and exactly one update call,   *)
(* with the sha of the index.html read, and no create call when the page   *)
(* differs.  Stated on the step that ends an update that rendered a page;  *)
(* local.head holds the files of the commit the index.html was read at.    *)
C2_PublishWrites ==
    [][(op.name = "update" /\ pc # "idle" /\ pc' = "idle" /\ content' # NoContent) =>
        LET writes == SelectSeq(calls', IsWrite)
        IN  IF "index.html" \notin DOMAIN local.head
            THEN Len(writes) = 1 /\ writes[1].fn = "create_file"
            ELSE IF utf8_encode(content') = local.head["index.html"]
            THEN writes = <<>>
            ELSE /\ Len(writes) = 1
                 /\ writes[1].fn = "update_file"
                 /\ writes[1].sha = BlobSha(local.head["index.html"])]_vars

(* The step makes the call get_config returns after: the listing without a *)
(* config.json, or the read of config.json.                                *)
GetConfigReturns ==
    /\ calls' # calls
    /\ calls' # <<>>
    /\ op'.name = "update"
    /\ LET last == calls'[Len(calls')]
       IN  last.fn = "get_contents" /\ last.path \in {"/", "config.json"}
    /\ pc' # "config"

(* Python's == on two configs: the order of the keys does not count.       *)
SameDict(a, b) == sort_keys(a) = sort_keys(b)

(* C6: get_config returns the remote config.json of the pages branch       *)
(* merged key by key over the built-in defaults, and the built-in defaults *)
(* when config.json is absent or is not JSON, whatever calls came before   *)
(* in the process; it does not fail.  Stated on the step get_config        *)
(* returns with, for a config.json that is still there when a listing that *)
(* showed it is followed by the read.                                      *)
C6_ConfigOverBuiltInDefaults ==
    [][(/\ GetConfigReturns
        /\ op'.branch_pages \in DOMAIN branches
        /\ pc = "config" => HasFile(branches, op'.branch_pages, "config.json")) =>
        LET bp == op'.branch_pages
        IN  /\ outcome' = "running"
            /\ IF HasFile(branches, bp, "config.json")
                  /\ IsJson(utf8_decode(branches[bp]["config.json"]))
               THEN SameDict(config',
                             Merge(DefaultConfig,
                                   json_loads(utf8_decode(branches[bp]["config.json"]))))
               ELSE SameDict(config', DefaultConfig)]_vars

(* C7: create with a local config path uses the parsed content of the file *)
(* at that path as the whole config; without a file at the path it fails   *)
(* with a file-not-found error before a repository is created.             *)
C7_LocalConfigFromPath ==
    (op.name = "create" /\ op.config_path # NoPath) =>
        IF op.config_path \in DOMAIN localFiles
        THEN IsJson(localFiles[op.config_path]) =>
                /\ outcome \notin {"FileNotFoundError", "RuntimeError", "ValueError"}
                /\ config = json_loads(localFiles[op.config_path])
        ELSE /\ outcome = "FileNotFoundError"
             /\ calls = <<>>

(* C10: every remote read and write of an update or an upgrade is made on  *)
(* the branch the --branch-pages option names.                             *)
C10_CallsTargetPagesBranch ==
    op.name \in {"update", "upgrade"} =>
        \A i \in 1..Len(calls) : calls[i].branch = op.branch_pages

(* Whether run_update was entered: it alone asks for the head of a branch. *)
RanUpdate(cs) == \E i \in 1..Len(cs) : cs[i].fn = "get_git_ref"

(* The step prints the message.                                            *)
Prints(message) ==
    printed' # printed /\ printed' # <<>> /\ printed'[Len(printed')] = message

(* C11: add_system prints "already exists" only when create_label met an   *)
(* existing label, and remove_system prints "does not exist" only when     *)
(* get_label found no label or the delete was refused; in both cases the   *)
(* command has not changed the repository's labels and no page update was  *)
(* run.  An error of the update that follows a successful create or delete *)
(* is therefore never reported with one of these messages.                 *)
C11_MessagesOnlyForRejectedLabelOperation ==
    [][/\ (op'.name = "add_system" /\ Prints(AlreadyExists(op'.system))) =>
            /\ HasLabel(repoLabels, strip(op'.system))
            /\ repoLabels' = repoLabels
            /\ Added(op'.system) \notin Range(printed')
            /\ ~RanUpdate(calls')
       /\ (op'.name = "remove_system" /\ Prints(DoesNotExist(op'.system))) =>
            /\ ~HasLabel(repoLabels, strip(op'.system)) \/ ~op'.push
            /\ repoLabels' = repoLabels
            /\ Deleted(op'.system) \notin Range(printed')
            /\ ~RanUpdate(calls')]_vars

====
